---- MODULE Spec2Model ----
(***************************************************************************)
(* A model of the whoop CORS proxy: the in-place request rewriter          *)
(* (src/src/http.rs, Parser::modify_stream), the response header editor    *)
(* (modify_response) and the connection dispatcher (src/src/main.rs,       *)
(* handle_stream).                                                         *)
(*                                                                         *)
(* Bytes are one-character strings; the zero byte of a fresh read buffer   *)
(* is NUL.  Indices are 0-based as in the source: byte i of a slice s is   *)
(* s[i + 1].  Option<T> is a sequence: <<>> is None, <<v>> is Some(v).     *)
(***************************************************************************)
EXTENDS Integers, Sequences, FiniteSets, TLC

(***************************************************************************)
(* Program constants.                                                      *)
(***************************************************************************)
\* let mut $buf = [0u8; 1024]
BufLen == 1024
\* pub addr: String<64>
AddrCap == 64
\* let mut port = String::<5>::new()
PortCap == 5
\* NonZeroU16
MaxU16 == 65535

NUL == "NUL"
CR == "\r"
LF == "\n"
SP == " "

DigitChars == <<"0", "1", "2", "3", "4", "5", "6", "7", "8", "9">>
DigitSet == {DigitChars[i] : i \in 1..10}
DigitVal(ch) == (CHOOSE i \in 1..10 : DigitChars[i] = ch) - 1

\* `let x = v; F(x)`: v is evaluated once and F applied to its value
Bind(v, F(_)) == CHOOSE r \in {F(x) : x \in {v}} : TRUE

\* the least element of a non-empty set of numbers
Min(S) == CHOOSE x \in S : \A y \in S : x <= y

(***************************************************************************)
(* Slices.  The operators below take values already bound (see Bind), so   *)
(* that a slice is computed once however often it is read.                 *)
(***************************************************************************)
\* &s[from..]
SliceFrom(s, from) == SubSeq(s, from + 1, Len(s))
\* &s[..to]
SliceTo(s, to) == SubSeq(s, 1, to)
\* s[at..at + Len(bytes)].copy_from_slice(bytes)
CopyFromSlice(s, at, bytes) ==
    SubSeq(s, 1, at) \o bytes \o SubSeq(s, at + Len(bytes) + 1, Len(s))

\* memchr::memmem::find(haystack, needle): Some(first offset) or None
find(haystack, needle) ==
    Bind({i \in 0..(Len(haystack) - Len(needle)) :
            \A k \in 1..Len(needle) : haystack[i + k] = needle[k]},
         LAMBDA hits : IF hits = {} THEN <<>> ELSE <<Min(hits)>>)

\* memchr::memchr(byte, haystack)
memchr(byte, haystack) == find(haystack, <<byte>>)

(***************************************************************************)
(* The byte-buffer editor (http.rs 418-449).  In a release build an        *)
(* out-of-range call does nothing; the inputs drawn below never make one.  *)
(***************************************************************************)
remove_n_from_slice(slice, index, n) ==
    IF index + n < Len(slice)
    THEN SubSeq(slice, 1, index) \o SubSeq(slice, index + n + 1, Len(slice))
         \o SubSeq(slice, Len(slice) - n + 1, Len(slice))
    ELSE slice

remove_from_slice(slice, index) == remove_n_from_slice(slice, index, 1)

\* a variant that moves nothing
NoShiftRight(slice, index, n) == slice

shift_right(slice, index, n) ==
    IF index + n < Len(slice)
    THEN SubSeq(slice, 1, index + n) \o SubSeq(slice, index + 1, Len(slice) - n)
    ELSE slice

(***************************************************************************)
(* num_to_bytes (main.rs 346-369): little-endian digits, then reversed in  *)
(* place inside a [u8; 5] of zero bytes.                                   *)
(***************************************************************************)
RECURSIVE EmitDigits(_)
EmitDigits(n) ==
    IF n > 0 THEN <<DigitChars[(n % 10) + 1]>> \o EmitDigits(n \div 10) ELSE <<>>

num_to_bytes(n) ==
    Bind(EmitDigits(n), LAMBDA le :
        [bytes |-> [j \in 1..5 |-> IF j <= Len(le) THEN le[Len(le) - j + 1] ELSE NUL],
         digits |-> Len(le)])

(***************************************************************************)
(* str::parse for the unsigned integer types: an optional leading '+',     *)
(* then one or more decimal digits.  -1 stands for Err.  The inputs drawn  *)
(* below have at most 6 digits, so usize overflow never arises.            *)
(***************************************************************************)
RECURSIVE DigitsValue(_)
DigitsValue(s) ==
    IF s = <<>> THEN 0
    ELSE 10 * DigitsValue(SubSeq(s, 1, Len(s) - 1)) + DigitVal(s[Len(s)])

ParseUnsigned(s) ==
    Bind(IF s # <<>> /\ s[1] = "+" THEN Tail(s) ELSE s, LAMBDA d :
        IF d = <<>> \/ (\E i \in 1..Len(d) : d[i] \notin DigitSet) THEN -1
        ELSE DigitsValue(d))

\* port.parse::<NonZeroU16>()
ParseNonZeroU16(s) ==
    Bind(ParseUnsigned(s), LAMBDA v : IF v < 1 \/ v > MaxU16 THEN -1 ELSE v)

(***************************************************************************)
(* Parser state (http.rs 7-95).                                            *)
(***************************************************************************)
Http == "Http"
Https == "Https"

\* impl Default for RequestInfo
DefaultInfo == [protocol |-> Https, addr |-> <<>>, port |-> 80]

\* #[derive(Default)] Parser
DefaultParser ==
    [past_heading |-> FALSE, past_host |-> FALSE, content_len |-> <<>>,
     finished |-> FALSE, info |-> <<>>]

\* #[derive(Default)] ContentLength
DefaultContentLength == [content_length |-> 0, bytes_given |-> 0]

\* ContentLength::full
full(cl) == cl.content_length >= cl.bytes_given

(***************************************************************************)
(* The cursor macros of modify_stream (http.rs 104-198).  A cursor is the  *)
(* triple of the function's locals buf, idx, removed.                      *)
(***************************************************************************)
Cursor(buf) == [buf |-> buf, idx |-> 0, removed |-> 0]

\* buf.get(idx)
peek(c) == IF c.idx < Len(c.buf) THEN <<c.buf[c.idx + 1]>> ELSE <<>>

\* next!(): the cursor after the read
advance(c) == IF c.idx < Len(c.buf) THEN [c EXCEPT !.idx = @ + 1] ELSE c

\* a variant in which the byte is read and stays in the buffer
SkipInsteadOfRemove(c) == IF c.idx < Len(c.buf) THEN [c EXCEPT !.idx = @ + 1] ELSE c

\* remove!(): the cursor after the removal of the current byte
remove(c) ==
    IF c.idx < Len(c.buf)
    THEN [c EXCEPT !.buf = remove_from_slice(@, c.idx), !.removed = @ + 1]
    ELSE c

\* iter_loop!(byte => { if byte == b { break; } })
skip_past(c, b) ==
    Bind({i \in c.idx..(Len(c.buf) - 1) : c.buf[i + 1] = b}, LAMBDA hits :
        IF hits = {} THEN [c EXCEPT !.idx = Len(c.buf)]
        ELSE [c EXCEPT !.idx = Min(hits) + 1])

\* b_else_err!(b, e): [ok, c]
b_else_err(c, b) == [ok |-> peek(c) = <<b>>, c |-> advance(c)]

\* remove_b_else_err!(b, e): [ok, c]
remove_b_else_err(c, b) == [ok |-> peek(c) = <<b>>, c |-> remove(c)]

\* a run of b_else_err!, one per byte of lit; ok iff all matched
RECURSIVE expect_all(_, _)
expect_all(c, lit) ==
    IF lit = <<>> THEN [ok |-> TRUE, c |-> c]
    ELSE Bind(b_else_err(c, Head(lit)), LAMBDA r :
            IF r.ok THEN expect_all(r.c, Tail(lit)) ELSE r)

\* a variant that checks the bytes of lit and leaves them in the buffer
ExpectWithoutRemoving(c, lit) == expect_all(c, lit)

\* a run of remove_b_else_err!, one per byte of lit; ok iff all matched
RECURSIVE remove_all(_, _)
remove_all(c, lit) ==
    IF lit = <<>> THEN [ok |-> TRUE, c |-> c]
    ELSE Bind(remove_b_else_err(c, Head(lit)), LAMBDA r :
            IF r.ok THEN remove_all(r.c, Tail(lit)) ELSE r)

(***************************************************************************)
(* Errors (http.rs 26-66).                                                 *)
(***************************************************************************)
InvalidProtocol == "InvalidProtocol"
TooLong == "TooLong"
MissingPath == "MissingPath"
InvalidPort == "InvalidPort"
InvalidRequest == "InvalidRequest"
UnsupportedHTTPVersion == "UnsupportedHTTPVersion"
NoErr == "NoErr"

HttpErrors ==
    {InvalidProtocol, TooLong, MissingPath, InvalidPort, InvalidRequest,
     UnsupportedHTTPVersion}

\* http::Error::code
HttpCode(e) ==
    IF e = TooLong THEN 414
    ELSE IF e = UnsupportedHTTPVersion THEN 505
    ELSE 400

(***************************************************************************)
(* The request line (http.rs 202-301).                                     *)
(***************************************************************************)
\* One pass through the body of the remove_iter_loop! that strips the domain
\* (http.rs 239-256) or, once ':' was met, of the inner loop that reads the
\* port (http.rs 245-252).  st is the loop's state: the cursor, addr, port
\* and at: "host" or "port" while a loop runs, "done" after its break,
\* else the error returned.
host_step(st) ==
    IF peek(st.c) = <<>> THEN [st EXCEPT !.at = "done"]
    ELSE IF peek(st.c) = <<"/">> THEN [st EXCEPT !.c = remove(@), !.at = "done"]
    ELSE IF peek(st.c) = <<SP>> THEN [st EXCEPT !.c = remove(@), !.at = MissingPath]
    ELSE IF st.at = "host"
    THEN IF peek(st.c) = <<":">> THEN [st EXCEPT !.c = remove(@), !.at = "port"]
         ELSE IF Len(st.addr) >= AddrCap
         THEN [st EXCEPT !.c = remove(@), !.at = TooLong]
         ELSE [st EXCEPT !.c = remove(@), !.addr = Append(@, peek(st.c)[1])]
    ELSE IF Len(st.port) >= PortCap
         THEN [st EXCEPT !.c = remove(@), !.at = InvalidPort]
         ELSE [st EXCEPT !.c = remove(@), !.port = Append(@, peek(st.c)[1])]

\* the two loops run to their end: at most n passes, halved so that the
\* evaluation stays shallow
RECURSIVE host_loop(_, _)
host_loop(st, n) ==
    IF st.at \notin {"host", "port"} \/ n = 0 THEN st
    ELSE IF n = 1 THEN host_step(st)
    ELSE Bind(host_loop(st, n \div 2), LAMBDA m : host_loop(m, n - (n \div 2)))

\* both loops end within AddrCap + 1 and PortCap + 1 passes
HostAndPort(c) ==
    Bind([c |-> c, addr |-> <<>>, port |-> <<>>, at |-> "host"], LAMBDA st :
        host_loop(st, AddrCap + PortCap + 2))

\* a variant in which the fallback port ignores the scheme
DefaultPortAlways80(protocol) == 80

\* the scheme's port, used when the port text does not parse (http.rs 259-265)
DefaultPort(protocol) == IF protocol = Http THEN 80 ELSE 443

\* port.parse().unwrap_or_else(..) (http.rs 259-266)
PortOf(portText, protocol) ==
    Bind(ParseNonZeroU16(portText), LAMBDA v :
        IF v = -1 THEN DefaultPort(protocol) ELSE v)

\* the last byte of the version (http.rs 281-292) and the rest of the line
\* (http.rs 295-299): [err, c]
VersionDigit(c) ==
    IF peek(c) \notin {<<"0">>, <<"1">>}
    THEN [err |-> UnsupportedHTTPVersion, c |-> advance(c)]
    ELSE Bind(advance(c), LAMBDA c1 : [err |-> NoErr, c |-> skip_past(c1, LF)])

\* the path is skipped and the HTTP version checked (http.rs 268-299): [err, c]
VersionAndRest(c) ==
    Bind(skip_past(c, SP), LAMBDA c1 :
    Bind(expect_all(c1, <<"H", "T", "T", "P", "/">>), LAMBDA h :
        IF ~h.ok THEN [err |-> InvalidRequest, c |-> h.c]
        ELSE
    Bind(expect_all(h.c, <<"1", ".">>), LAMBDA v :
        IF ~v.ok THEN [err |-> UnsupportedHTTPVersion, c |-> v.c]
        ELSE VersionDigit(v.c))))

\* the domain, the port and the rest of the line (http.rs 236-299), from the
\* cursor after `://`: [err, c, info]
HostPortAndRest(c, info) ==
    Bind(HostAndPort(c), LAMBDA d :
        IF d.at # "done" THEN [err |-> d.at, c |-> d.c, info |-> info]
        ELSE
    Bind(VersionAndRest(d.c), LAMBDA v :
        [err |-> v.err,
         c |-> v.c,
         info |-> [info EXCEPT !.addr = d.addr,
                               !.port = PortOf(d.port, info.protocol)]]))

\* the protocol and `://` (http.rs 218-234), then the rest, from the cursor
\* after the leading `/` and the optional `?`: [err, c, info]
SchemeAndRest(c, info) ==
    Bind(remove_all(c, <<"h", "t", "t", "p">>), LAMBDA h :
        IF ~h.ok THEN [err |-> InvalidProtocol, c |-> h.c, info |-> info]
        ELSE
    Bind([info EXCEPT !.protocol = IF peek(h.c) = <<"s">> THEN Https ELSE Http],
         LAMBDA info1 :
    Bind(IF peek(h.c) = <<"s">> THEN remove(h.c) ELSE h.c, LAMBDA c2 :
    Bind(remove_all(c2, <<":", "/", "/">>), LAMBDA sep :
        IF ~sep.ok THEN [err |-> InvalidProtocol, c |-> sep.c, info |-> info1]
        ELSE HostPortAndRest(sep.c, info1)))))

\* a variant that does not require `/` after the first space
ParseRequestLineAnyTarget(buf, info) ==
    Bind(skip_past(Cursor(buf), SP), LAMBDA c0 :
    Bind(IF peek(c0) = <<"/">> THEN advance(c0) ELSE c0, LAMBDA c1 :
        SchemeAndRest(c1, info)))

\* the block under `if !self.past_heading` (http.rs 202-301): [err, c, info]
ParseRequestLine(buf, info) ==
    Bind(skip_past(Cursor(buf), SP), LAMBDA c0 :
    Bind(b_else_err(c0, "/"), LAMBDA s :
        IF ~s.ok THEN [err |-> InvalidRequest, c |-> s.c, info |-> info]
        ELSE
    Bind(IF peek(s.c) = <<"?">> THEN remove(s.c) ELSE s.c, LAMBDA c1 :
        SchemeAndRest(c1, info))))

(***************************************************************************)
(* The Host header (http.rs 325-376).  buf is the slice &mut buf[idx..].   *)
(* Returns [err, buf, removed].  A copy_from_slice past the end of the     *)
(* slice panics; the inputs drawn below keep the heading inside the        *)
(* buffer, so that "Panic" is never returned.                              *)
(***************************************************************************)
HostStr == <<"H", "o", "s", "t", ":", " ">>

\* (Http, 80) or (Https, 443) (http.rs 338-342)
is_default_port(info) ==
    IF info.protocol = Http THEN info.port = 80 ELSE info.port = 443

\* the bytes written over the old value (http.rs 364-373)
NewHostBytes(info) ==
    IF is_default_port(info) THEN info.addr
    ELSE Bind(num_to_bytes(info.port), LAMBDA nb :
            info.addr \o <<":">> \o SubSeq(nb.bytes, 1, nb.digits))

\* the bytes after the old value are moved to where they follow the new one
\* (http.rs 345-362); idx is the offset of the value
MoveForHost(buf, idx, len_of_new_host, len_of_old_host) ==
    IF len_of_new_host > len_of_old_host
    THEN shift_right(buf, idx + len_of_old_host, len_of_new_host - len_of_old_host)
    ELSE IF len_of_new_host < len_of_old_host
    THEN remove_n_from_slice(buf, idx + len_of_new_host,
                             len_of_old_host - len_of_new_host)
    ELSE buf

\* the removed count of a rewrite (http.rs 353-360)
HostRemoved(len_of_new_host, len_of_old_host) ==
    IF len_of_new_host < len_of_old_host
    THEN len_of_old_host - len_of_new_host
    ELSE 0

\* the rewrite once `Host: ` and the `\r` ending its value are found
\* (http.rs 336-375)
RewriteHost(buf, idx, len_of_old_host, new) ==
    IF idx + Len(new) > Len(buf)
    THEN [err |-> "Panic", buf |-> buf, removed |-> 0]
    ELSE Bind(MoveForHost(buf, idx, Len(new), len_of_old_host), LAMBDA moved :
            [err |-> NoErr,
             buf |-> CopyFromSlice(moved, idx, new),
             removed |-> HostRemoved(Len(new), len_of_old_host)])

replace_host_header(buf, info) ==
    Bind(find(buf, HostStr), LAMBDA host_idx :
        IF host_idx = <<>> THEN [err |-> NoErr, buf |-> buf, removed |-> 0]
        ELSE
    Bind(SliceFrom(buf, host_idx[1] + Len(HostStr)), LAMBDA rest :
    Bind(memchr(CR, rest), LAMBDA old :
        IF old = <<>> THEN [err |-> InvalidRequest, buf |-> buf, removed |-> 0]
        ELSE
    Bind(NewHostBytes(info), LAMBDA new :
        RewriteHost(buf, host_idx[1] + Len(HostStr), old[1], new)))))

(***************************************************************************)
(* The Content-Length counter (http.rs 378-399).  buf is &mut buf[idx..].  *)
(* Returns [err, content_len].                                             *)
(***************************************************************************)
ContentLenStr ==
    <<"\n", "C", "o", "n", "t", "e", "n", "t", "-", "L", "e", "n", "g", "t",
      "h", ":", " ">>

\* the counter after a header with value total_content_len was read
\* (http.rs 385, 392-396)
Counted(self_content_len, total_content_len, buf_len, heading_end) ==
    Bind(IF self_content_len = <<>> THEN DefaultContentLength
         ELSE self_content_len[1], LAMBDA content_len :
        [content_length |-> total_content_len,
         bytes_given |-> content_len.bytes_given + (buf_len - heading_end)])

get_content_len(self_content_len, buf, heading_end) ==
    Bind(find(buf, ContentLenStr), LAMBDA host_idx :
        IF host_idx = <<>> THEN [err |-> NoErr, content_len |-> self_content_len]
        ELSE
    Bind(SliceFrom(buf, host_idx[1] + Len(ContentLenStr)), LAMBDA rest :
    Bind(memchr(CR, rest), LAMBDA end :
        IF end = <<>>
        THEN [err |-> InvalidRequest, content_len |-> self_content_len]
        ELSE
    Bind(ParseUnsigned(SubSeq(rest, 1, end[1])), LAMBDA total_content_len :
        IF total_content_len = -1
        THEN [err |-> InvalidRequest, content_len |-> self_content_len]
        ELSE [err |-> NoErr,
              content_len |->
                <<Counted(self_content_len, total_content_len, Len(buf),
                          heading_end)>>]))))

(***************************************************************************)
(* Parser::modify_stream (http.rs 99-323).                                 *)
(* Returns [parser, buf, ok, removed, err]: the parser and the buffer as   *)
(* the call leaves them, and the Result (removed when Ok, err when Err).   *)
(***************************************************************************)
HeadingEndStr == <<"\r", "\n", "\r", "\n">>

\* a variant without the early return
NeverAlreadyFinished(self) == FALSE

\* the early return (http.rs 100-102)
AlreadyFinished(self) == self.finished

\* let mut info = self.info.take().unwrap_or_default() (http.rs 200)
TakeInfo(self) == IF self.info = <<>> THEN DefaultInfo ELSE self.info[1]

\* find(&buf[idx..], b"\r\n\r\n").map_or(0, |i| i + 4) (http.rs 310)
HeadingEnd(buf) ==
    Bind(find(buf, HeadingEndStr), LAMBDA e : IF e = <<>> THEN 0 ELSE e[1] + 4)

\* the condition under which finished is set (http.rs 314-315)
FinishCond(heading_end, content_len) ==
    \/ heading_end = 0 /\ content_len # <<>> /\ full(content_len[1])
    \/ heading_end # 0 /\ content_len = <<>>

\* a variant in which an error return resets the parser
ParserResetOnErr(self, past_heading, past_host) ==
    [past_heading |-> FALSE, past_host |-> FALSE, content_len |-> <<>>,
     finished |-> FALSE, info |-> <<>>]

\* the parser an error return leaves behind: info was taken at line 200 and
\* is not put back; the flags assigned before the return keep their values
ParserOnErr(self, past_heading, past_host) ==
    [self EXCEPT !.info = <<>>,
                 !.past_heading = past_heading,
                 !.past_host = past_host]

\* the parser an Ok return leaves behind (http.rs 300, 306, 312-320)
ParserOnOk(self, past_host, content_len, heading_end, info) ==
    [past_heading |-> TRUE,
     past_host |-> past_host,
     content_len |-> content_len,
     finished |-> FinishCond(heading_end, content_len),
     info |-> <<info>>]

ErrResult(parser, buf, e) ==
    [parser |-> parser, buf |-> buf, ok |-> FALSE, removed |-> 0, err |-> e]

\* http.rs 310-322; head is buf[..idx], h the outcome of the Host phase
AfterHost(self, head, h, removed0, info) ==
    Bind(self.past_host \/ h.removed # 0, LAMBDA past_host :
    Bind(HeadingEnd(h.buf), LAMBDA heading_end :
    Bind(get_content_len(self.content_len, h.buf, heading_end), LAMBDA cl :
        IF cl.err # NoErr
        THEN ErrResult(ParserOnErr(self, TRUE, past_host), head \o h.buf, cl.err)
        ELSE [parser |-> ParserOnOk(self, past_host, cl.content_len,
                                    heading_end, info),
              buf |-> head \o h.buf,
              ok |-> TRUE,
              removed |-> removed0 + h.removed,
              err |-> NoErr])))

\* http.rs 303-322; rl is the outcome of the request-line phase
AfterRequestLine(self, rl) ==
    Bind(SliceTo(rl.c.buf, rl.c.idx), LAMBDA head :
    Bind(SliceFrom(rl.c.buf, rl.c.idx), LAMBDA tail :
    Bind(IF ~self.past_host THEN replace_host_header(tail, rl.info)
         ELSE [err |-> NoErr, buf |-> tail, removed |-> 0], LAMBDA h :
        IF h.err # NoErr
        THEN ErrResult(ParserOnErr(self, TRUE, self.past_host),
                       head \o h.buf, h.err)
        ELSE AfterHost(self, head, h, rl.c.removed, rl.info))))

ModifyStream(self, buf0) ==
    IF AlreadyFinished(self)
    THEN [parser |-> self, buf |-> buf0, ok |-> TRUE, removed |-> 0, err |-> NoErr]
    ELSE
    Bind(IF ~self.past_heading THEN ParseRequestLine(buf0, TakeInfo(self))
         ELSE [err |-> NoErr, c |-> Cursor(buf0), info |-> TakeInfo(self)],
         LAMBDA rl :
        IF rl.err # NoErr
        THEN ErrResult(ParserOnErr(self, self.past_heading, self.past_host),
                       rl.c.buf, rl.err)
        ELSE AfterRequestLine(self, rl))

(***************************************************************************)
(* The bytes a client can send.  A request is described by its parts, so   *)
(* that what the parser extracts can be compared with what was sent.       *)
(* An Option part is <<>> when absent.  cut: the read ends right after the *)
(* Host value, before the line's CRLF (the rest of the heading would come  *)
(* with a later read).  raw, when present, is the whole read: it continues *)
(* a request and is not a request of its own.                              *)
(***************************************************************************)
CRLF == <<"\r", "\n">>
GET == <<"G", "E", "T">>
POST == <<"P", "O", "S", "T">>
S_http == <<"h", "t", "t", "p">>
S_https == <<"h", "t", "t", "p", "s">>
S_ftp == <<"f", "t", "p">>
S_htt == <<"h", "t", "t">>
SchemeSep == <<":", "/", "/">>
H_e == <<"e", ".", "c", "o", "m">>
H_example == <<"e", "x", "a", "m", "p", "l", "e", ".", "c", "o", "m">>
H_a == <<"a", ".", "c", "o", "m">>
H_proxy ==
    <<"p", "r", "o", "x", "y", ".", "l", "o", "c", "a", "l", ":", "8", "0", "0", "0">>
Path_ab == <<"a", "?", "b", "=", "1">>
V11 == <<"H", "T", "T", "P", "/", "1", ".", "1">>
V10 == <<"H", "T", "T", "P", "/", "1", ".", "0">>
B_abc == <<"a", "b", "c">>
ContentLengthName ==
    <<"C", "o", "n", "t", "e", "n", "t", "-", "L", "e", "n", "g", "t", "h", ":", " ">>

\* a decimal text as sent, with the number it denotes
P_8080 == [text |-> <<"8", "0", "8", "0">>, num |-> 8080]
P_443 == [text |-> <<"4", "4", "3">>, num |-> 443]
P_80 == [text |-> <<"8", "0">>, num |-> 80]
P_65535 == [text |-> <<"6", "5", "5", "3", "5">>, num |-> 65535]
N_3 == [text |-> <<"3">>, num |-> 3]
N_0 == [text |-> <<"0">>, num |-> 0]
N_2000 == [text |-> <<"2", "0", "0", "0">>, num |-> 2000]
\* not a number
N_abc == [text |-> B_abc, num |-> -1]
\* port texts that are no port number
P_99999 == [text |-> <<"9", "9", "9", "9", "9">>, num |-> 99999]
P_8x == [text |-> <<"8", "x">>, num |-> -1]
P_123456 == [text |-> <<"1", "2", "3", "4", "5", "6">>, num |-> 123456]

Rep(ch, k) == [i \in 1..k |-> ch]

Target(r) ==
    (IF r.slash THEN <<"/">> ELSE <<>>)
    \o (IF r.q THEN <<"?">> ELSE <<>>)
    \o r.scheme \o r.sep \o r.host
    \o (IF r.port = <<>> THEN <<>> ELSE <<":">> \o r.port[1].text)
    \o (IF r.path = <<>> THEN <<>> ELSE <<"/">> \o r.path[1])

RequestLine(r) == r.method \o <<SP>> \o Target(r) \o <<SP>> \o r.version \o CRLF

ContentLengthLine(r) ==
    IF r.cl = <<>> THEN <<>> ELSE ContentLengthName \o r.cl[1].text \o CRLF

\* the header lines and the blank line that ends the heading
Headers(r) ==
    (IF r.hostv = <<>> THEN <<>> ELSE HostStr \o r.hostv[1] \o CRLF)
    \o ContentLengthLine(r) \o CRLF

Bytes(r) ==
    IF r.raw # <<>> THEN r.raw[1]
    ELSE IF r.cut THEN RequestLine(r) \o HostStr \o r.hostv[1]
    ELSE RequestLine(r) \o Headers(r) \o r.body

\* GET /http://e.com/ HTTP/1.1 CRLF Host: x CRLF CRLF
Base ==
    [method |-> GET, slash |-> TRUE, q |-> FALSE, scheme |-> S_http,
     sep |-> SchemeSep, host |-> H_e, port |-> <<>>, path |-> << <<>> >>,
     version |-> V11, hostv |-> << <<"x">> >>, cut |-> FALSE, cl |-> <<>>,
     body |-> <<>>, raw |-> <<>>]

\* well-formed requests: scheme, port and the old and new Host lengths vary
ValidReqs ==
    {[Base EXCEPT !.scheme = s, !.port = p, !.host = h, !.hostv = <<v>>] :
        s \in {S_http, S_https},
        p \in {<<>>, <<P_8080>>, <<P_443>>, <<P_80>>},
        h \in {H_e, H_example},
        v \in {<<"x">>, H_a, H_proxy}}
    \cup {[Base EXCEPT !.q = TRUE, !.scheme = S_https],
          [Base EXCEPT !.path = <<Path_ab>>, !.port = <<P_65535>>],
          [Base EXCEPT !.version = V10, !.hostv = <<>>],
          [Base EXCEPT !.host = Rep("a", AddrCap), !.hostv = <<H_proxy>>],
          [Base EXCEPT !.path = <<Rep("p", AddrCap)>>],
          [Base EXCEPT !.path = <<Rep("p", AddrCap + 1)>>]}

\* requests with a Content-Length header, with and without their body
BodyReqs ==
    {[Base EXCEPT !.method = POST, !.hostv = <<v>>, !.cl = <<l>>, !.body = b] :
        v \in {<<"x">>, H_proxy},
        l \in {N_3, N_0, N_2000},
        b \in {<<>>, B_abc}}

\* malformed request lines and headings
BadReqs ==
    {[Base EXCEPT !.slash = FALSE],
     [Base EXCEPT !.scheme = S_ftp],
     [Base EXCEPT !.scheme = S_htt],
     [Base EXCEPT !.sep = <<":", "/">>],
     [Base EXCEPT !.q = TRUE, !.scheme = S_ftp],
     [Base EXCEPT !.path = <<>>],
     [Base EXCEPT !.path = <<>>, !.port = <<P_8080>>],
     [Base EXCEPT !.host = Rep("a", AddrCap + 1)],
     [Base EXCEPT !.host = Rep("a", AddrCap + 1), !.path = <<>>],
     [Base EXCEPT !.cut = TRUE],
     [Base EXCEPT !.cut = TRUE, !.hostv = <<H_proxy>>],
     [Base EXCEPT !.cl = <<N_abc>>],
     [Base EXCEPT !.hostv = <<H_proxy>>, !.cl = <<N_abc>>]}

\* version tokens other than HTTP/1.0 and HTTP/1.1
V20 == <<"H", "T", "T", "P", "/", "2", ".", "0">>
V12 == <<"H", "T", "T", "P", "/", "1", ".", "2">>
V112 == <<"H", "T", "T", "P", "/", "1", ".", "1", "2">>
V_ftp == <<"F", "T", "P", "/", "1", ".", "1">>

BadVersionReqs ==
    {[Base EXCEPT !.version = v, !.hostv = <<h>>] :
        v \in {V20, V12, V112, V_ftp}, h \in {<<"x">>, H_proxy}}

\* request lines whose port text is no number in 1..65535
BadPortReqs ==
    {[Base EXCEPT !.scheme = s, !.port = <<p>>] :
        s \in {S_http, S_https}, p \in {N_0, P_99999, P_8x, P_123456}}

Raw(bytes) == [Base EXCEPT !.raw = <<bytes>>]

\* reads that continue a request: body bytes, late header lines
Continuations ==
    {Raw(B_abc),
     Raw(HostStr \o Rep("z", 20) \o CRLF \o CRLF),
     Raw(HostStr \o <<"x">>),
     Raw(<<"X", ":", " ", "y", "\r">> \o ContentLenStr \o <<"5">> \o CRLF \o CRLF),
     Raw(CRLF \o CRLF \o B_abc)}

FirstReads ==
    ValidReqs \cup BodyReqs \cup BadReqs \cup BadPortReqs \cup BadVersionReqs
LaterReads == Continuations \cup {Base, [Base EXCEPT !.hostv = <<H_proxy>>]}

\* stream.read(&mut buf) into a fresh [0u8; 1024]
Pad(bytes) == bytes \o Rep(NUL, BufLen - Len(bytes))

(***************************************************************************)
(* modify_response (http.rs 403-416): [ret, buf].  An empty value ended by *)
(* a bare LF makes `end - 1` underflow; no response drawn below has one.   *)
(***************************************************************************)
CorsHeader ==
    <<"A", "c", "c", "e", "s", "s", "-", "C", "o", "n", "t", "r", "o", "l",
      "-", "A", "l", "l", "o", "w", "-", "O", "r", "i", "g", "i", "n", ":",
      " ">>

\* response[start] = b'*'; remove_n_from_slice(response, start + 1, end - 1)
\* (http.rs 412-414); start is the offset of the value, end of its `\n`
StarAndCollapse(response, start, end) ==
    Bind(CopyFromSlice(response, start, <<"*">>), LAMBDA starred :
        remove_n_from_slice(starred, start + 1, end - 1))

modify_response(response) ==
    Bind(find(response, CorsHeader), LAMBDA found :
        IF found = <<>> THEN [ret |-> FALSE, buf |-> response]
        ELSE
    Bind(memchr(LF, SliceFrom(response, found[1] + Len(CorsHeader))), LAMBDA end :
        IF end = <<>> THEN [ret |-> FALSE, buf |-> response]
        ELSE [ret |-> TRUE,
              buf |-> StarAndCollapse(response, found[1] + Len(CorsHeader),
                                      end[1])]))

(***************************************************************************)
(* The bytes an upstream server can send.  A response is described by its  *)
(* parts: status line, the header lines before and after the CORS header,  *)
(* the value of that header (<<>>: the header is absent) and the body.     *)
(***************************************************************************)
St_200 ==
    <<"H", "T", "T", "P", "/", "1", ".", "1", " ", "2", "0", "0", " ", "O",
      "K", "\r", "\n">>
St_404 ==
    <<"H", "T", "T", "P", "/", "1", ".", "1", " ", "4", "0", "4", " ", "N",
      "o", "t", " ", "F", "o", "u", "n", "d", "\r", "\n">>
Hd_type ==
    <<"C", "o", "n", "t", "e", "n", "t", "-", "T", "y", "p", "e", ":", " ",
      "t", "e", "x", "t", "/", "p", "l", "a", "i", "n", "\r", "\n">>
Hd_vary ==
    <<"V", "a", "r", "y", ":", " ", "O", "r", "i", "g", "i", "n", "\r",
      "\n">>
O_null == <<"n", "u", "l", "l">>
O_site == <<"h", "t", "t", "p", "s", ":", "/", "/", "a", ".", "b">>
B_hello == <<"h", "e", "l", "l", "o">>
\* a body that itself holds the text of a CORS header line
B_cors == CorsHeader \o O_null \o CRLF

CorsLine(d) == IF d.origin = <<>> THEN <<>> ELSE CorsHeader \o d.origin[1] \o CRLF

\* the header block, up to and including the blank line
ResponseHead(d) == d.status \o d.before \o CorsLine(d) \o d.after \o CRLF

ResponseBytes(d) == ResponseHead(d) \o d.body

Responses ==
    [status : {St_200, St_404},
     before : {<<>>, Hd_type},
     origin : {<<>>, << <<"*">> >>, <<O_null>>, <<O_site>>},
     after : {<<>>, Hd_vary},
     body : {<<>>, <<"x">>, B_hello, B_cors}]

(***************************************************************************)
(* Errors of the dispatcher and send_error (main.rs 24-83).                *)
(***************************************************************************)
NotFound == "NotFound"
LoopbackIp == "LoopbackIp"
DowngradeToHTTP == "DowngradeToHTTP"
InternalServerError == "InternalServerError"

\* http::Error::into_str and Error::into_str, as bytes
Message(e) ==
    CASE e = InvalidProtocol ->
      <<"I", "n", "v", "a", "l", "i", "d", " ", "p", "r", "o", "t", "o",
        "c", "o", "l", " ", "(", "t", "h", "e", " ", "p", "a", "t", "h", " ",
        "m", "u", "s", "t", " ", "s", "t", "a", "r", "t", " ", "w", "i", "t",
        "h", " ", "h", "t", "t", "p", ":", "/", "/", " ", "o", "r", " ", "h",
        "t", "t", "p", "s", ":", "/", "/", ")">>
      [] e = TooLong ->
      <<"T", "h", "e", " ", "d", "o", "m", "a", "i", "n", " ", "o", "r",
        " ", "p", "a", "t", "h", " ", "w", "a", "s", " ", "t", "o", "o", " ",
        "l", "o", "n", "g", " ", "(", "t", "h", "e", "y", " ", "h", "a", "v",
        "e", " ", "a", " ", "m", "a", "x", " ", "o", "f", " ", "6", "4", " ",
        "e", "a", "c", "h", ")">>
      [] e = MissingPath ->
      <<"M", "i", "s", "s", "i", "n", "g", " ", "t", "h", "e", " ", "p",
        "a", "t", "h", " ", "a", "f", "t", "e", "r", " ", "t", "h", "e", " ",
        "d", "o", "m", "a", "i", "n", " ", "(", "i", "f", " ", "y", "o", "u",
        " ", "w", "a", "n", "t", " ", "t", "h", "e", " ", "r", "o", "o", "t",
        " ", "p", "a", "t", "h", ",", " ", "u", "s", "e", " ", "/", ")">>
      [] e = InvalidPort ->
      <<"I", "n", "v", "a", "l", "i", "d", " ", "p", "o", "r", "t">>
      [] e = InvalidRequest ->
      <<"I", "n", "v", "a", "l", "i", "d", " ", "r", "e", "q", "u", "e",
        "s", "t">>
      [] e = UnsupportedHTTPVersion ->
      <<"T", "h", "e", " ", "H", "T", "T", "P", " ", "v", "e", "r", "s",
        "i", "o", "n", " ", "n", "u", "m", "b", "e", "r", " ", "i", "s", " ",
        "u", "n", "s", "u", "p", "p", "o", "r", "t", "e", "d", ".", " ", "T",
        "h", "e", " ", "o", "n", "l", "y", " ", "v", "e", "r", "s", "i", "o",
        "n", " ", "n", "u", "m", "b", "e", "r", "s", " ", "s", "u", "p", "p",
        "o", "r", "t", "e", "d", " ", "a", "r", "e", " ", "1", ".", "0", " ",
        "&", " ", "1", ".", "1">>
      [] e = NotFound ->
      <<"N", "o", "t", " ", "F", "o", "u", "n", "d">>
      [] e = LoopbackIp ->
      <<"D", "o", "n", "'", "t", " ", "u", "s", "e", " ", "l", "o", "o",
        "p", "b", "a", "c", "k", " ", "I", "P", "s", " ">>
        \o <<"xF0", "x9F", "x98", "x94">>
      [] e = DowngradeToHTTP -> <<>>
      [] e = InternalServerError ->
      <<"I", "n", "t", "e", "r", "n", "a", "l", " ", "S", "e", "r", "v",
        "e", "r", " ", "E", "r", "r", "o", "r">>

\* Error::code
Code(e) ==
    IF e \in HttpErrors THEN HttpCode(e)
    ELSE IF e = NotFound THEN 404
    ELSE IF e = LoopbackIp THEN 403
    ELSE IF e = DowngradeToHTTP THEN 308
    ELSE 500

\* &bytes[..digits] of num_to_bytes(n)
Decimal(n) == Bind(num_to_bytes(n), LAMBDA nb : SubSeq(nb.bytes, 1, nb.digits))

\* the bytes send_error writes (main.rs 64-83)
send_error(e) ==
    <<"H", "T", "T", "P", "/", "1", ".", "0", " ">> \o Decimal(Code(e))
    \o <<"\r", "\n", "C", "o", "n", "t", "e", "n", "t", "-", "L", "e", "n",
      "g", "t", "h", ":", " ">>
    \o Decimal(Len(Message(e)))
    \o <<"\r", "\n", "C", "o", "n", "t", "e", "n", "t", "-", "T", "y", "p",
      "e", ":", " ", "t", "e", "x", "t", "/", "p", "l", "a", "i", "n", "\r",
      "\n", "\r", "\n">>
    \o Message(e)

(***************************************************************************)
(* The state.  parser is the connection's Parser; call records the last    *)
(* modify_stream call (the read it was given, the parser before it, the    *)
(* buffer and the Result after it) and calls counts them.  The rest is the *)
(* dispatcher's: where handle_stream stands, its outbound connection, the  *)
(* bytes written to the upstream and to the client, the reads taken from   *)
(* the upstream, found_end and the error handle_stream returned.  resp     *)
(* records a modify_response call made on its own.                         *)
(***************************************************************************)
VARIABLES parser, call, calls, pc, connection, to_upstream, from_upstream,
          to_client, found_end, error, resp, again, lookup

vars ==
    <<parser, call, calls, pc, connection, to_upstream, from_upstream,
      to_client, found_end, error, resp, again, lookup>>

parserVars == <<parser, call, calls>>
dispatchVars ==
    <<pc, connection, to_upstream, from_upstream, to_client, found_end, error>>

\* the number of modify_stream calls made on one Parser
MaxCalls == 3
\* the number of reads taken from the upstream connection
MaxUpstreamReads == 2

NoCall ==
    [made |-> FALSE, req |-> Base, prev |-> DefaultParser, after |-> <<>>,
     ok |-> TRUE, removed |-> 0, err |-> NoErr, first |-> Base, seen |-> 0]

NoResp == [made |-> FALSE, desc |-> CHOOSE d \in Responses : TRUE, ret |-> FALSE,
           buf |-> <<>>]

\* again records a rewrite of a request by a fresh Parser (first) and the
\* rewrite, by another fresh Parser, of the bytes the first one left to
\* forward (second); stage counts the rewrites made
NoRewrite == [ok |-> FALSE, err |-> NoErr, out |-> <<>>, info |-> <<>>]
NoAgain == [stage |-> 0, req |-> Base, first |-> NoRewrite, second |-> NoRewrite]

\* the record of a call: r the read, res what ModifyStream returned
\* the bytes of a read that lie after its `\r\n\r\n`, or all of them when
\* it has none
AfterTerminator(bytes) ==
    Bind(find(bytes, HeadingEndStr), LAMBDA e :
        IF e = <<>> THEN Len(bytes) ELSE Len(bytes) - (e[1] + Len(HeadingEndStr)))

\* first is the first read given to the Parser; seen counts the body bytes
\* handed to it so far when first holds the whole heading: the bytes after
\* the terminator of the first read and every byte of the later reads
CallRecord(r, res) ==
    [made |-> TRUE, req |-> r, prev |-> parser, after |-> res.buf,
     ok |-> res.ok, removed |-> res.removed, err |-> res.err,
     first |-> IF calls = 0 THEN r ELSE call.first,
     seen |-> IF calls = 0 THEN (IF r.raw = <<>> /\ ~r.cut THEN Len(r.body) ELSE 0)
              ELSE call.seen + Len(Bytes(r))]

\* n, the number of bytes of the last read
ReadLen == Len(Bytes(call.req))

\* &buf[..n - removed] (main.rs 153-154)
Forwarded(buf, n, removed) == SubSeq(buf, 1, n - removed)

\* no DNS lookup was made in the last pass of the read loop
NoLookup == [made |-> FALSE, dns |-> [ok |-> FALSE, ips |-> <<>>], dialed |-> <<>>]

InitCommon ==
    /\ parser = DefaultParser
    /\ call = NoCall
    /\ calls = 0
    /\ pc = "request"
    /\ connection = <<>>
    /\ to_upstream = <<>>
    /\ from_upstream = <<>>
    /\ to_client = <<>>
    /\ found_end = FALSE
    /\ error = <<>>
    /\ resp = NoResp
    /\ again = NoAgain
    /\ lookup = NoLookup

(***************************************************************************)
(* The parser driven directly: any sequence of modify_stream calls on one  *)
(* Parser, each on a fresh read buffer.                                    *)
(***************************************************************************)
CallWith(r) ==
    \E buf \in {Pad(Bytes(r))} :
    \E res \in {ModifyStream(parser, buf)} :
        /\ parser' = res.parser
        /\ call' = CallRecord(r, res)
        /\ calls' = calls + 1
        /\ UNCHANGED <<dispatchVars, resp, again, lookup>>

FirstCall ==
    /\ calls = 0
    /\ \E r \in FirstReads : CallWith(r)

LaterCall ==
    /\ calls > 0
    /\ calls < MaxCalls
    /\ \E r \in LaterReads : CallWith(r)

NextParser == FirstCall \/ LaterCall

SpecParser == InitCommon /\ [][NextParser]_vars

(***************************************************************************)
(* modify_response applied to one response buffer.                         *)
(***************************************************************************)
ModifyResponseCall ==
    /\ ~resp.made
    /\ \E d \in Responses :
       \E buf \in {ResponseBytes(d)} :
       \E m \in {modify_response(buf)} :
            resp' = [made |-> TRUE, desc |-> d, ret |-> m.ret, buf |-> m.buf]
    /\ UNCHANGED <<parserVars, dispatchVars, again, lookup>>

SpecResponse == InitCommon /\ [][ModifyResponseCall]_vars

(***************************************************************************)
(* A request rewritten twice: a fresh Parser rewrites one read, and the    *)
(* bytes it leaves to forward, buf[..n - removed], are read by a second    *)
(* fresh Parser.                                                           *)
(***************************************************************************)
\* paths that themselves look like an absolute URL, and paths that do not
Url_bc == <<"h", "t", "t", "p", ":", "/", "/", "b", ".", "c", "/", "x">>
Urls_bc == <<"h", "t", "t", "p", "s", ":", "/", "/", "b", ".", "c", "/">>
UrlQ_bc == <<"?", "h", "t", "t", "p", ":", "/", "/", "b", ".", "c", "/", "x">>
UrlNoPath_bc == <<"h", "t", "t", "p", ":", "/", "/", "b", ".", "c">>
H_bc == <<"b", ".", "c">>
Path_hello == <<"h", "e", "l", "l", "o">>
Path_httpx == <<"h", "t", "t", "p", "/", "x">>

PathReqs ==
    {[Base EXCEPT !.scheme = s, !.port = p, !.hostv = <<v>>, !.path = <<pa>>] :
        s \in {S_http, S_https},
        p \in {<<>>, <<P_8080>>},
        v \in {H_a, H_proxy},
        pa \in {Url_bc, Urls_bc, UrlQ_bc, UrlNoPath_bc, Path_hello, Path_httpx,
                Path_ab}}

TwiceReads == ValidReqs \cup BodyReqs \cup BadReqs \cup PathReqs

\* one rewrite by a fresh Parser of the n bytes `bytes`
Rewrite(bytes) ==
    Bind(Pad(bytes), LAMBDA buf :
    Bind(ModifyStream(DefaultParser, buf), LAMBDA res :
        [ok |-> res.ok, err |-> res.err,
         out |-> IF res.ok THEN Forwarded(res.buf, Len(bytes), res.removed)
                 ELSE <<>>,
         info |-> res.parser.info]))

RewriteFirst ==
    /\ again.stage = 0
    /\ \E r \in TwiceReads :
       \E bytes \in {Bytes(r)} :
       \E first \in {Rewrite(bytes)} :
            again' = [stage |-> 1, req |-> r, first |-> first, second |-> NoRewrite]
    /\ UNCHANGED <<parserVars, dispatchVars, resp, lookup>>

RewriteAgain ==
    /\ again.stage = 1
    /\ again.first.ok
    /\ \E second \in {Rewrite(again.first.out)} :
            again' = [again EXCEPT !.stage = 2, !.second = second]
    /\ UNCHANGED <<parserVars, dispatchVars, resp, lookup>>

NextTwice == RewriteFirst \/ RewriteAgain

SpecTwice == InitCommon /\ [][NextTwice]_vars

(***************************************************************************)
(* The dispatcher, handle_stream (main.rs 141-231), for one client         *)
(* connection.  The DNS resolver, the TCP connect and the TLS handshake    *)
(* are the environment: each answers with one of its outcomes.  pc is      *)
(* "request" in the outer read loop, "response" in the inner one, "failed" *)
(* after an Err return and send_error, "closed" after Ok(()).  Failing     *)
(* writes and panicking reads are left out.                                *)
(***************************************************************************)
Loopback == "127.0.0.1"
Public == "93.184.216.34"

is_loopback(ip) == ip = Loopback

\* what dns_resolver.lookup_ip(addr) can answer
DnsAnswers ==
    {[ok |-> FALSE, ips |-> <<>>],
     [ok |-> TRUE, ips |-> <<Loopback>>],
     [ok |-> TRUE, ips |-> <<Public>>],
     [ok |-> TRUE, ips |-> <<Loopback, Public>>]}

\* how TcpStream::connect can end; "reset" is ErrorKind::ConnectionReset
ConnectOutcomes == {"connected", "reset", "refused"}

\* how ServerName::try_from and rustls_connector.connect can end
TlsOutcomes == {"connected", "invalid_name", "handshake_failed"}

\* ips.iter().find(|ip| !ip.is_loopback()) (main.rs 158)
FirstNonLoopback(ips) ==
    Bind(SelectSeq(ips, LAMBDA ip : ~is_loopback(ip)), LAMBDA rest :
        IF rest = <<>> THEN <<>> ELSE <<Head(rest)>>)

\* a variant that takes the first address of the answer, whatever it is
ResolveFirstAddress(dns) ==
    IF ~dns.ok \/ dns.ips = <<>> THEN [err |-> NotFound, ip |-> Loopback]
    ELSE [err |-> NoErr, ip |-> dns.ips[1]]

\* main.rs 157-170: [err, ip]
Resolve(dns) ==
    IF ~dns.ok THEN [err |-> NotFound, ip |-> Loopback]
    ELSE
    Bind(FirstNonLoopback(dns.ips), LAMBDA found :
        IF found = <<>> THEN [err |-> NotFound, ip |-> Loopback]
        ELSE IF is_loopback(found[1]) THEN [err |-> LoopbackIp, ip |-> found[1]]
        ELSE [err |-> NoErr, ip |-> found[1]])

\* main.rs 172-192: [err, conn]; held is the connection kept from an earlier
\* read, if any
Connect(held, info, ip, tcp, tls) ==
    Bind([ip |-> ip, port |-> info.port, tls |-> info.protocol = Https],
         LAMBDA c :
        IF held # <<>> THEN [err |-> NoErr, conn |-> held[1]]
        ELSE IF tcp = "reset" /\ info.protocol = Https
        THEN [err |-> DowngradeToHTTP, conn |-> c]
        ELSE IF tcp # "connected" THEN [err |-> InternalServerError, conn |-> c]
        ELSE IF info.protocol = Https /\ tls = "invalid_name"
        THEN [err |-> NotFound, conn |-> c]
        ELSE IF info.protocol = Https /\ tls = "handshake_failed"
        THEN [err |-> InternalServerError, conn |-> c]
        ELSE [err |-> NoErr, conn |-> c])

\* a variant in which the read loop goes on after an error
FailedButContinues(held, e) ==
    [pc |-> "request", connection |-> held, written |-> <<>>, error |-> <<e>>,
     reply |-> send_error(e)]

\* the Err return of handle_stream and send_error in the spawned task
\* (main.rs 132-135)
Failed(held, e) ==
    [pc |-> "failed", connection |-> held, written |-> <<>>, error |-> <<e>>,
     reply |-> send_error(e)]

\* a variant in which the response relay starts after the first write
RelayAtOnce(res, n, conn) ==
    [pc |-> "response", connection |-> <<conn>>,
     written |-> Forwarded(res.buf, n, res.removed), error |-> <<>>,
     reply |-> <<>>]

\* main.rs 194-226 with an open connection conn
WriteUpstream(res, n, conn) ==
    [pc |-> IF res.parser.finished THEN "response" ELSE "request",
     connection |-> <<conn>>,
     written |-> Forwarded(res.buf, n, res.removed),
     error |-> <<>>,
     reply |-> <<>>]

\* one pass of the outer loop body (main.rs 149-227); res is what
\* modify_stream returned for the n bytes read
Iteration(held, res, n, dns, tcp, tls) ==
    IF ~res.ok THEN Failed(held, res.err)
    ELSE IF res.parser.info = <<>>
    THEN [pc |-> "request", connection |-> held, written |-> <<>>,
          error |-> <<>>, reply |-> <<>>]
    ELSE
    Bind(Resolve(dns), LAMBDA r :
        IF r.err # NoErr THEN Failed(held, r.err)
        ELSE
    Bind(Connect(held, res.parser.info[1], r.ip, tcp, tls), LAMBDA c :
        IF c.err # NoErr THEN Failed(held, c.err)
        ELSE WriteUpstream(res, n, c.conn)))

\* what one pass of the outer loop body asked of the network: the answer of
\* lookup_ip (main.rs 157), made when parser.info is Some, and the address
\* given to TcpStream::connect (main.rs 175), called when the lookup passed
\* and no connection is held
Lookup(held, res, dns) ==
    IF ~res.ok \/ res.parser.info = <<>> THEN NoLookup
    ELSE
    Bind(Resolve(dns), LAMBDA r :
        [made |-> TRUE, dns |-> dns,
         dialed |-> IF r.err = NoErr /\ held = <<>> THEN <<r.ip>> ELSE <<>>])

\* b"\r\nAccess-Control-Allow-Origin: *\r\n" (main.rs 216)
InjectedCors == CRLF \o CorsHeader \o <<"*">> \o CRLF

\* one pass of the inner loop body (main.rs 199-221) on the n bytes read
\* from upstream: [written, found_end]
Relay(buf, found) ==
    IF found THEN [written |-> buf, found_end |-> TRUE]
    ELSE
    Bind(modify_response(buf), LAMBDA m :
        IF m.ret THEN [written |-> m.buf, found_end |-> TRUE]
        ELSE
    Bind(find(buf, HeadingEndStr), LAMBDA end_idx :
        IF end_idx = <<>> THEN [written |-> buf, found_end |-> FALSE]
        ELSE [written |-> SliceTo(buf, end_idx[1]) \o InjectedCors
                          \o SliceFrom(buf, end_idx[1]),
              found_end |-> TRUE]))

\* the number of reads taken from the client connection
MaxClientReads == 2

\* what the client sends first, and what it sends after that
ClientFirstReads ==
    {Base,
     [Base EXCEPT !.hostv = <<H_proxy>>],
     [Base EXCEPT !.scheme = S_https, !.port = <<P_8080>>],
     [Base EXCEPT !.method = POST, !.hostv = <<H_proxy>>, !.cl = <<N_3>>,
                  !.body = B_abc],
     [Base EXCEPT !.version = V10, !.hostv = <<>>],
     [Base EXCEPT !.scheme = S_ftp],
     [Base EXCEPT !.slash = FALSE],
     [Base EXCEPT !.path = <<>>],
     [Base EXCEPT !.host = Rep("a", AddrCap + 1)],
     [Base EXCEPT !.port = <<P_123456>>],
     [Base EXCEPT !.version = V20]}

ClientLaterReads ==
    {Raw(B_abc), Raw(CRLF \o CRLF \o B_abc), Raw(HostStr \o <<"x">>)}

\* what one read from upstream returns: a response with its whole header
\* block (head names its parts), or bytes without one
UpstreamChunks ==
    {[head |-> <<d>>, bytes |-> ResponseBytes(d)] :
        d \in [status : {St_200}, before : {<<>>, Hd_type},
               origin : {<<>>, << <<"*">> >>, <<O_null>>}, after : {<<>>},
               body : {B_hello}]}
    \cup {[head |-> <<>>, bytes |-> b] : b \in {St_200, B_hello, B_cors}}

ClientRead ==
    /\ pc = "request"
    /\ calls < MaxClientReads
    /\ \E r \in IF calls = 0 THEN ClientFirstReads ELSE ClientLaterReads :
       \E buf \in {Pad(Bytes(r))} :
       \E res \in {ModifyStream(parser, buf)} :
       \E dns \in DnsAnswers, tcp \in ConnectOutcomes, tls \in TlsOutcomes :
       \E out \in {Iteration(connection, res, Len(Bytes(r)), dns, tcp, tls)} :
            /\ parser' = res.parser
            /\ call' = CallRecord(r, res)
            /\ calls' = calls + 1
            /\ pc' = out.pc
            /\ connection' = out.connection
            /\ to_upstream' = to_upstream \o out.written
            /\ to_client' = to_client \o out.reply
            /\ error' = out.error
            /\ lookup' = Lookup(connection, res, dns)
            /\ UNCHANGED <<from_upstream, found_end, resp, again>>

\* timeout or EOF on the client side (main.rs 90-91)
ClientEnd ==
    /\ pc = "request"
    /\ pc' = "closed"
    /\ connection' = <<>>
    /\ UNCHANGED <<parserVars, to_upstream, from_upstream, to_client,
                   found_end, error, resp, again, lookup>>

UpstreamRead ==
    /\ pc = "response"
    /\ Len(from_upstream) < MaxUpstreamReads
    /\ \E ch \in UpstreamChunks :
       \E out \in {Relay(ch.bytes, found_end)} :
            /\ from_upstream' = Append(from_upstream, ch)
            /\ to_client' = to_client \o out.written
            /\ found_end' = out.found_end
            /\ UNCHANGED <<parserVars, pc, connection, to_upstream, error, resp,
                           again, lookup>>

\* timeout or EOF on the upstream side, then `break` (main.rs 90-91, 223)
UpstreamEnd ==
    /\ pc = "response"
    /\ pc' = "closed"
    /\ connection' = <<>>
    /\ UNCHANGED <<parserVars, to_upstream, from_upstream, to_client,
                   found_end, error, resp, again, lookup>>

Next == ClientRead \/ ClientEnd \/ UpstreamRead \/ UpstreamEnd

Spec == InitCommon /\ [][Next]_vars

(***************************************************************************)
(* What a request asks for, read off its parts.                            *)
(***************************************************************************)
IsRequest(r) == r.raw = <<>>

SchemeOk(r) == r.scheme \in {S_http, S_https} /\ r.sep = SchemeSep

PortTextLen(r) == IF r.port = <<>> THEN 0 ELSE Len(r.port[1].text)

\* METHOD /[?]<scheme>://<host>[:<port>]/<path> HTTP/1.x
ValidLine(r) ==
    /\ IsRequest(r)
    /\ r.slash
    /\ SchemeOk(r)
    /\ r.path # <<>>
    /\ Len(r.host) <= AddrCap
    /\ r.port # <<>> => r.port[1].num \in 1..MaxU16 /\ PortTextLen(r) <= PortCap
    /\ r.version \in {V10, V11}

\* a valid request whose whole heading lies in the read
ValidRequest(r) ==
    /\ ValidLine(r)
    /\ ~r.cut
    /\ r.cl # <<>> => r.cl[1].num >= 0

ExpectedProtocol(r) == IF r.scheme = S_https THEN Https ELSE Http

SchemeDefault(r) == IF r.scheme = S_https THEN 443 ELSE 80

ExpectedPort(r) == IF r.port = <<>> THEN SchemeDefault(r) ELSE r.port[1].num

\* host[:port], the port left out when it is the scheme's default
ExpectedHost(r) ==
    IF ExpectedPort(r) = SchemeDefault(r) THEN r.host
    ELSE r.host \o <<":">> \o r.port[1].text

\* METHOD SP /path SP HTTP-version CRLF
ExpectedLine(r) ==
    r.method \o <<SP, "/">> \o r.path[1] \o <<SP>> \o r.version \o CRLF

ExpectedHeaders(r) ==
    (IF r.hostv = <<>> THEN <<>> ELSE HostStr \o ExpectedHost(r) \o CRLF)
    \o ContentLengthLine(r) \o CRLF

ExpectedRequest(r) == ExpectedLine(r) \o ExpectedHeaders(r) \o r.body

\* the last call was the first one on a fresh Parser
FirstOnFresh == call.made /\ call.prev = DefaultParser

\* the last call returned Err(e) and left past_heading false
Rejected(e) == ~call.ok /\ call.err = e /\ ~parser.past_heading

(***************************************************************************)
(* C1: for a valid request whose whole heading lies in the read, the slice *)
(* buf[..n - removed] forwarded after Ok(removed) is exactly the           *)
(* origin-form request line followed by the original headers with only the *)
(* Host value replaced by the target host[:port], then the body bytes of  *)
(* the same read, whether the new value is shorter than, as long as, or    *)
(* longer than the old one.                                                *)
(***************************************************************************)
C1_ForwardedIsRewrittenRequest ==
    (FirstOnFresh /\ ValidRequest(call.req) /\ call.ok)
        => Forwarded(call.after, ReadLen, call.removed) = ExpectedRequest(call.req)

(***************************************************************************)
(* C2: for a valid request line, after modify_stream returns Ok, info.addr *)
(* is the host of the URL, info.protocol is Https iff the scheme is https, *)
(* and info.port is the declared port, or 80 for http and 443 for https    *)
(* when none is declared.                                                  *)
(***************************************************************************)
C2_InfoMatchesUrl ==
    (call.made /\ ~call.prev.past_heading /\ ValidLine(call.req) /\ call.ok)
        => parser.info = <<[protocol |-> ExpectedProtocol(call.req),
                            addr |-> call.req.host,
                            port |-> ExpectedPort(call.req)]>>

\* an https URL without a port was parsed, and the port is 443
C2_Witness ==
    /\ call.made /\ ~call.prev.past_heading /\ ValidLine(call.req) /\ call.ok
    /\ call.req.scheme = S_https
    /\ call.req.port = <<>>
    /\ parser.info # <<>>
    /\ parser.info[1].port = 443

(***************************************************************************)
(* C5: the parser reaches finished = true in the call in which (a) the     *)
(* heading terminator is seen and no Content-Length was declared, or (b) a *)
(* Content-Length: N was declared and at least N body bytes were seen; in  *)
(* particular when heading and body arrive in one read.                    *)
(***************************************************************************)
C5_FinishedWhenRequestComplete ==
    (FirstOnFresh /\ ValidRequest(call.req) /\ call.ok)
        => /\ call.req.cl = <<>> => parser.finished
           /\ (call.req.cl # <<>> /\ Len(call.req.body) >= call.req.cl[1].num)
                => parser.finished

(***************************************************************************)
(* C6: once finished = true, every later modify_stream call returns Ok(0), *)
(* leaves every byte of the buffer unchanged and leaves every parser field *)
(* unchanged.                                                              *)
(***************************************************************************)
C6_FinishedIsNoOp ==
    (call.made /\ call.prev.finished)
        => /\ call.ok
           /\ call.removed = 0
           /\ call.after = Pad(Bytes(call.req))
           /\ parser = call.prev

\* a finished parser was given a read that holds a Host line
C6_Witness ==
    /\ call.made
    /\ call.prev.finished
    /\ find(Bytes(call.req), HostStr) # <<>>

(***************************************************************************)
(* C7: across any sequence of modify_stream calls on one Parser, whether   *)
(* each returns Ok or Err, none of past_heading, past_host and finished    *)
(* changes from true back to false.                                        *)
(***************************************************************************)
C7_FlagsNeverRevert ==
    [][/\ parser.past_heading => parser'.past_heading
       /\ parser.past_host => parser'.past_host
       /\ parser.finished => parser'.finished]_vars

\* a call on a parser with past_heading and past_host set returned Ok, and
\* the parser is not finished
C7_Witness ==
    /\ call.made
    /\ call.ok
    /\ call.prev.past_heading
    /\ call.prev.past_host
    /\ ~call.prev.finished
    /\ parser.past_host

(***************************************************************************)
(* C8: in every reachable Parser state, past_heading = true implies info   *)
(* is Some, also in the state an error return leaves behind.               *)
(***************************************************************************)
C8_PastHeadingImpliesInfo == parser.past_heading => parser.info # <<>>

(***************************************************************************)
(* C9: a request whose host or whose path is longer than 64 bytes is       *)
(* rejected with TooLong; one whose host and path are each at most 64      *)
(* bytes is not rejected with TooLong.                                     *)
(***************************************************************************)
C9_TooLongIffHostOrPathOver64 ==
    (FirstOnFresh /\ IsRequest(call.req) /\ call.req.slash /\ SchemeOk(call.req)
     /\ call.req.path # <<>>)
        => IF Len(call.req.host) > AddrCap \/ Len(call.req.path[1]) > AddrCap
           THEN ~call.ok /\ call.err = TooLong
           ELSE call.err # TooLong

(***************************************************************************)
(* C10: a malformed request line is rejected by its first failing step:    *)
(* no `/` after the first space gives InvalidRequest; a scheme other than  *)
(* http or https, or no `://` after it, gives InvalidProtocol; a host or   *)
(* port ended by a space gives MissingPath.  Each time modify_stream       *)
(* returns Err and past_heading stays false.                               *)
(***************************************************************************)
C10_ErrorOfFirstFailingStep ==
    (call.made /\ ~call.prev.past_heading /\ IsRequest(call.req))
        => /\ ~call.req.slash => Rejected(InvalidRequest)
           /\ (call.req.slash /\ ~SchemeOk(call.req)) => Rejected(InvalidProtocol)
           /\ (call.req.slash /\ SchemeOk(call.req) /\ call.req.path = <<>>
               /\ Len(call.req.host) <= AddrCap /\ PortTextLen(call.req) <= PortCap)
                => Rejected(MissingPath)

\* a request line whose port is ended by a space was rejected
C10_Witness ==
    /\ call.made /\ ~call.prev.past_heading /\ IsRequest(call.req)
    /\ call.req.path = <<>>
    /\ call.req.port # <<>>
    /\ Rejected(MissingPath)

(***************************************************************************)
(* C3: for a response buffer containing `Access-Control-Allow-Origin:      *)
(* <value> CRLF` with a non-empty value, modify_response returns true and  *)
(* the buffer then holds `Access-Control-Allow-Origin: * CRLF` at the same *)
(* offset, immediately followed by the bytes that followed the line.       *)
(***************************************************************************)
C3_Starred(d) ==
    d.status \o d.before \o CorsHeader \o <<"*">> \o CRLF \o d.after \o CRLF
    \o d.body

C3_CorsValueBecomesStar ==
    (resp.made /\ resp.desc.origin # <<>>)
        => /\ resp.ret
           /\ SubSeq(resp.buf, 1, Len(C3_Starred(resp.desc))) = C3_Starred(resp.desc)

(***************************************************************************)
(* C4: for an upstream response whose header block is visible in one       *)
(* buffer, the bytes the dispatcher writes to the client are the upstream  *)
(* bytes with exactly one change: the Access-Control-Allow-Origin value    *)
(* replaced by `*`, or, when the header is absent, one header line         *)
(* `Access-Control-Allow-Origin: *` inserted before the terminator.  The   *)
(* body and everything read after it reach the client unchanged.           *)
(***************************************************************************)
C4_ExpectedHead(d) ==
    IF d.origin # <<>> THEN C3_Starred(d)
    ELSE d.status \o d.before \o d.after \o CorsHeader \o <<"*">> \o CRLF
         \o CRLF \o d.body

RECURSIVE C4_Concat(_)
C4_Concat(chunks) ==
    IF chunks = <<>> THEN <<>>
    ELSE Head(chunks).bytes \o C4_Concat(Tail(chunks))

C4_ClientGetsUpstreamWithOneChange ==
    (pc \in {"response", "closed"} /\ from_upstream # <<>>
     /\ from_upstream[1].head # <<>>)
        => to_client = C4_ExpectedHead(from_upstream[1].head[1])
                       \o C4_Concat(Tail(from_upstream))

(***************************************************************************)
(* C11: a non-empty port text is accepted only if it is a decimal number   *)
(* in 1..65535; any other port text (a non-digit in it, `0`, above 65535,  *)
(* more than 5 bytes) makes modify_stream return InvalidPort.  The scheme  *)
(* default is used only when there is no port text.                        *)
(***************************************************************************)
C11_PortTextIsNumberOrInvalidPort ==
    (FirstOnFresh /\ IsRequest(call.req) /\ call.req.slash /\ SchemeOk(call.req)
     /\ Len(call.req.host) <= AddrCap /\ call.req.path # <<>>
     /\ call.req.version \in {V10, V11} /\ ~call.req.cut /\ call.req.cl = <<>>
     /\ call.req.port # <<>>)
        => IF call.req.port[1].num \in 1..MaxU16 /\ PortTextLen(call.req) <= PortCap
           THEN call.ok /\ parser.info # <<>>
                /\ parser.info[1].port = call.req.port[1].num
           ELSE ~call.ok /\ call.err = InvalidPort

(***************************************************************************)
(* C12: a request line is accepted only when the token after the path's    *)
(* trailing space is exactly `HTTP/1.0` or `HTTP/1.1`; any other token     *)
(* makes modify_stream return UnsupportedHTTPVersion.                      *)
(***************************************************************************)
C12_OnlyHttp10And11Accepted ==
    (FirstOnFresh /\ IsRequest(call.req) /\ call.req.slash /\ SchemeOk(call.req)
     /\ Len(call.req.host) <= AddrCap /\ call.req.path # <<>>
     /\ call.req.port = <<>> /\ ~call.req.cut /\ call.req.cl = <<>>)
        => IF call.req.version \in {V10, V11}
           THEN call.ok
           ELSE ~call.ok /\ call.err = UnsupportedHTTPVersion

(***************************************************************************)
(* C13 as stated: rewriting is idempotent: the rewritten output of a       *)
(* request, fed to a fresh Parser, either returns InvalidProtocol or, when *)
(* the remaining path itself looks like an absolute URL, rewrites to the   *)
(* same result as the first rewrite.                                       *)
(***************************************************************************)
C13_RewriteIsIdempotent ==
    (again.stage = 2 /\ ValidRequest(again.req))
        => \/ ~again.second.ok /\ again.second.err = InvalidProtocol
           \/ again.second.ok /\ again.second.out = again.first.out

IsPrefix(p, s) == Len(p) <= Len(s) /\ SubSeq(s, 1, Len(p)) = p

\* the path begins with [?]http[s]://
PathIsUrl(r) ==
    \E q \in {<<>>, <<"?">>} : \E sc \in {S_http, S_https} :
        IsPrefix(q \o sc \o SchemeSep, r.path[1])

(***************************************************************************)
(* C13 as amended: the rewritten output of a valid request, fed to a fresh *)
(* Parser, returns InvalidProtocol unless the remaining path begins with   *)
(* [?]http[s]://; in that case the second Parser does not return           *)
(* InvalidProtocol, and when it returns Ok it has rewritten the request a  *)
(* second time, for the host named in the path: the output differs from    *)
(* the first rewrite.                                                      *)
(***************************************************************************)
C13_SecondRewriteTargetsThePath ==
    (again.stage = 2 /\ ValidRequest(again.req))
        => IF PathIsUrl(again.req)
           THEN /\ again.second.err # InvalidProtocol
                /\ again.second.ok
                    => /\ again.second.info # <<>>
                       /\ again.second.info[1].addr = H_bc
                       /\ again.second.out # again.first.out
           ELSE ~again.second.ok /\ again.second.err = InvalidProtocol

\* a rewritten request whose path is a URL was rewritten again, for b.c
C13_Witness ==
    /\ again.stage = 2
    /\ ValidRequest(again.req)
    /\ PathIsUrl(again.req)
    /\ again.second.ok
    /\ again.second.info[1].addr = H_bc

(***************************************************************************)
(* C14: for every error kind the bytes send_error writes to the client are *)
(* `HTTP/1.0 <code> CRLF Content-Length: <n> CRLF Content-Type: text/plain *)
(* CRLF CRLF <message>`, <code> the status of the kind and <n> the decimal *)
(* representation of the byte length of <message>, also when the message   *)
(* is empty.                                                               *)
(***************************************************************************)
C14_Status(e) ==
    CASE e \in {InvalidProtocol, MissingPath, InvalidPort, InvalidRequest}
            -> <<"4", "0", "0">>
      [] e = TooLong -> <<"4", "1", "4">>
      [] e = UnsupportedHTTPVersion -> <<"5", "0", "5">>
      [] e = NotFound -> <<"4", "0", "4">>
      [] e = LoopbackIp -> <<"4", "0", "3">>
      [] e = DowngradeToHTTP -> <<"3", "0", "8">>
      [] e = InternalServerError -> <<"5", "0", "0">>

\* the decimal representation of n >= 0
RECURSIVE C14_Dec(_)
C14_Dec(n) ==
    IF n < 10 THEN <<DigitChars[n + 1]>>
    ELSE C14_Dec(n \div 10) \o <<DigitChars[(n % 10) + 1]>>

C14_Response(e) ==
    <<"H", "T", "T", "P", "/", "1", ".", "0", " ">> \o C14_Status(e) \o CRLF
    \o ContentLengthName \o C14_Dec(Len(Message(e))) \o CRLF
    \o <<"C", "o", "n", "t", "e", "n", "t", "-", "T", "y", "p", "e", ":", " ",
         "t", "e", "x", "t", "/", "p", "l", "a", "i", "n">> \o CRLF \o CRLF
    \o Message(e)

C14_ErrorResponseBytes ==
    (pc = "failed" /\ error # <<>>) => to_client = C14_Response(error[1])

(***************************************************************************)
(* C15: when the buffer after the request line holds `Host: <old> CR`,     *)
(* replace_host_header leaves `Host: <new>` at the same offset, <new>      *)
(* being info.addr alone for the scheme's default port and info.addr, `:`  *)
(* and the decimal port otherwise, immediately followed by the bytes that  *)
(* followed <old>; this for <old> longer than, as long as and shorter than *)
(* <new>.  The removed count is len(old) - len(new) when shrinking, else 0.*)
(***************************************************************************)
\* the bytes removed from the request line: the URL's scheme, host and port
C15_LineRemoved(r) == Len(RequestLine(r)) - Len(ExpectedLine(r))

C15_HostRemoved(r) ==
    IF Len(r.hostv[1]) > Len(ExpectedHost(r))
    THEN Len(r.hostv[1]) - Len(ExpectedHost(r))
    ELSE 0

C15_HostValueReplacedInPlace ==
    (FirstOnFresh /\ ValidRequest(call.req) /\ call.req.hostv # <<>> /\ call.ok)
        => /\ IsPrefix(ExpectedRequest(call.req), call.after)
           /\ call.removed = C15_LineRemoved(call.req) + C15_HostRemoved(call.req)

\* a Host value was replaced by a longer one that names a port
C15_Witness ==
    /\ FirstOnFresh /\ ValidRequest(call.req) /\ call.req.hostv # <<>> /\ call.ok
    /\ Len(ExpectedHost(call.req)) > Len(call.req.hostv[1])
    /\ ExpectedPort(call.req) # SchemeDefault(call.req)
    /\ IsPrefix(ExpectedRequest(call.req), call.after)

(***************************************************************************)
(* C16: after any modify_stream call in which `Host: ` is found and its    *)
(* value rewritten, past_host is true, whatever the relation between the   *)
(* lengths of the old and the new value; so the Host rewrite happens at    *)
(* most once over the calls on one Parser.                                 *)
(***************************************************************************)
C16_PastHostAfterRewrite ==
    (FirstOnFresh /\ ValidRequest(call.req) /\ call.req.hostv # <<>> /\ call.ok)
        => parser.past_host

(***************************************************************************)
(* C17: for a request that declared Content-Length: N, finished is never   *)
(* true while the body bytes (the bytes after the heading terminator)      *)
(* handed to modify_stream so far are fewer than N.                        *)
(***************************************************************************)
C17_NotFinishedBeforeBodyComplete ==
    (call.made /\ ValidRequest(call.first) /\ call.first.cl # <<>>
     /\ parser.finished)
        => call.seen >= call.first.cl[1].num

(***************************************************************************)
(* C18: once a Content-Length is declared, every modify_stream call made   *)
(* at or after the end of the heading adds len(buf) - heading_end to       *)
(* bytes_given, len(buf) the number of bytes of this read and heading_end  *)
(* the offset just past the terminator in this read, or 0 when it is not   *)
(* in it; this includes later calls on body bytes without a Content-Length *)
(* header.                                                                 *)
(***************************************************************************)
C18_BytesGiven(p) ==
    IF p.content_len = <<>> THEN 0 ELSE p.content_len[1].bytes_given

C18_EveryCallCountsItsBodyBytes ==
    (call.made /\ call.ok /\ ~call.prev.finished /\ ValidRequest(call.first)
     /\ call.first.cl # <<>>)
        => C18_BytesGiven(parser)
            = C18_BytesGiven(call.prev) + AfterTerminator(Bytes(call.req))

(***************************************************************************)
(* C19: within one client connection the request phase precedes the        *)
(* response phase: no byte read from upstream is written to the client     *)
(* before parser.finished is true; every client read before that point is  *)
(* passed through modify_stream and forwarded upstream in read order; once *)
(* the response relay has started no client byte is forwarded upstream.    *)
(***************************************************************************)
C19_RequestPhaseBeforeResponse ==
    [][/\ (from_upstream' # from_upstream \/ (to_client' # to_client /\ error' = <<>>))
            => parser.finished /\ pc = "response"
       /\ (pc = "request" /\ calls' = calls + 1 /\ error' = <<>>)
            => /\ ~parser.finished
               /\ to_upstream' = to_upstream
                    \o Forwarded(call'.after, Len(Bytes(call'.req)), call'.removed)
       /\ pc # "request" => to_upstream' = to_upstream]_vars

\* two client reads were forwarded, then upstream bytes reached the client
C19_Witness ==
    /\ pc = "response"
    /\ calls = 2
    /\ to_upstream # <<>>
    /\ from_upstream # <<>>
    /\ to_client # <<>>

(***************************************************************************)
(* C20: when modify_stream returns an error for a client read, no byte of  *)
(* that buffer is written upstream, no further client read is processed on *)
(* the connection, and exactly one error response is written to the        *)
(* client; nothing is retried.                                             *)
(***************************************************************************)
C20_ParserErrorIsTerminal ==
    [][/\ pc # "failed"
       /\ (calls' = calls + 1 /\ ~call'.ok)
            => /\ to_upstream' = to_upstream
               /\ pc' = "failed"
               /\ error' = <<call'.err>>
               /\ to_client = <<>>
               /\ to_client' = C14_Response(call'.err)]_vars

\* a read was forwarded, the next one was rejected by modify_stream
C20_Witness ==
    /\ pc = "failed"
    /\ calls = 2
    /\ ~call.ok
    /\ to_upstream # <<>>

(***************************************************************************)
(* C21: for a valid request line `M SP /[?]<scheme>://<host>[:<port>]/     *)
(* <rest> CRLF`, after the request-line phase the buffer begins with       *)
(* `M SP /<rest> CRLF` followed by the bytes that followed the line, and   *)
(* the number of bytes removed in the phase is the length of the original  *)
(* line minus the length of the rewritten line.                            *)
(***************************************************************************)
\* the bytes of the read that follow the request line
C21_AfterLine(r) == SubSeq(Bytes(r), Len(RequestLine(r)) + 1, Len(Bytes(r)))

\* the request-line phase on the first read of the last call
C21_Phase == ParseRequestLine(Pad(Bytes(call.req)), DefaultInfo)

C21_RequestLineExcised ==
    (FirstOnFresh /\ ValidLine(call.req))
        => \E rl \in {C21_Phase} :
            /\ rl.err = NoErr
            /\ IsPrefix(ExpectedLine(call.req) \o C21_AfterLine(call.req), rl.c.buf)
            /\ rl.c.idx = Len(ExpectedLine(call.req))
            /\ rl.c.removed = Len(RequestLine(call.req)) - Len(ExpectedLine(call.req))

\* `GET /?https://e.com/ HTTP/1.1` was rewritten: 15 bytes were removed
C21_Witness ==
    /\ FirstOnFresh /\ ValidLine(call.req) /\ call.ok
    /\ call.req.q
    /\ call.req.scheme = S_https
    /\ \E rl \in {C21_Phase} : rl.err = NoErr /\ rl.c.removed = 15

(***************************************************************************)
(* C22: request body bytes pass through unmodified: a modify_stream call   *)
(* made after an earlier call on the same Parser saw the heading           *)
(* terminator returns Ok(0) and leaves every byte of the buffer unchanged, *)
(* even when the body holds the text `Host: ` or `\nContent-Length: `.     *)
(***************************************************************************)
C22_BodyPassesUnmodified ==
    (call.made /\ calls > 1 /\ ValidRequest(call.first)
     /\ call.first.hostv # <<>> /\ call.prev.info # <<>>)
        => /\ call.ok
           /\ call.removed = 0
           /\ call.after = Pad(Bytes(call.req))

(***************************************************************************)
(* C23: modify_response never changes a byte after the first              *)
(* `\r\n\r\n`: when `Access-Control-Allow-Origin: ` occurs only in the     *)
(* body and not in the header block, it returns false and leaves the whole *)
(* buffer unchanged; and whenever it returns false the buffer is unchanged.*)
(***************************************************************************)
C23_BodyNeverTouched ==
    resp.made
        => /\ resp.desc.origin = <<>>
                => ~resp.ret /\ resp.buf = ResponseBytes(resp.desc)
           /\ ~resp.ret => resp.buf = ResponseBytes(resp.desc)

(***************************************************************************)
(* C24: whatever the DNS lookup answers, the dispatcher never opens an     *)
(* outbound connection to a loopback address: the address it connects to   *)
(* is a non-loopback address of the answer, and when the answer holds no   *)
(* non-loopback address the pass ends with NotFound without connecting.    *)
(***************************************************************************)
C24_NonLoopback(ips) == SelectSeq(ips, LAMBDA ip : ip # Loopback)

C24_NeverConnectsToLoopback ==
    /\ connection # <<>> => connection[1].ip # Loopback
    /\ lookup.made
        => /\ lookup.dialed # <<>>
                => /\ lookup.dialed[1] # Loopback
                   /\ \E i \in 1..Len(lookup.dns.ips) :
                        lookup.dns.ips[i] = lookup.dialed[1]
           /\ C24_NonLoopback(lookup.dns.ips) = <<>>
                => /\ lookup.dialed = <<>>
                   /\ error = <<NotFound>>
                   /\ pc = "failed"

C24_Witness ==
    /\ lookup.made
    /\ lookup.dns.ips = <<Loopback, Public>>
    /\ lookup.dialed = <<Public>>
    /\ connection # <<>>
    /\ connection[1].ip = Public

====
